---- MODULE Spec2Model ----
(***************************************************************************)
(* The cookbook of backend/py_template/devdonalds.py: the module-level     *)
(* list `cookbook`, the /entry handler create_entry, the /summary handler  *)
(* summary and its helpers get_base_ingredients and get_total_cook_time.   *)
(*                                                                         *)
(* A JSON payload is a record whose DOMAIN is the set of keys it carries,  *)
(* so `'type' not in payload` is  "type" \notin DOMAIN payload.            *)
(* Quantities and cook times are JSON integers, on which Python's int()    *)
(* is the identity; Python integers do not overflow.                       *)
(* A response is the pair the handler returns, flattened to one record:    *)
(* the HTTP status, the set of keys of the JSON body, and the value of     *)
(* each key (a default where the key is absent).  An exception that        *)
(* leaves a handler uncaught is Flask's 500 response.                      *)
(***************************************************************************)
EXTENDS Integers, Sequences, FiniteSets, TLC

VARIABLES cookbook, last

vars == <<cookbook, last>>

(***************************************************************************)
(* Bounds of the model.                                                    *)
(***************************************************************************)
\* The quantities of the required items in the payloads of Spec: create_entry
\* and the control flow of summary never branch on a quantity, so Spec carries
\* one that is not positive and one that is; SpecResolve varies the magnitudes.
SpecQuantities == {0, 1}
\* Largest quantity of a required item in the cookbooks of SpecResolve (the
\* smallest is 1).
MaxResolveQuantity == 2
\* Largest cookTime a payload carries (the smallest is -1).
MaxCookTime == 1
\* Frames of get_base_ingredients the interpreter allows before it raises
\* RecursionError (CPython's recursion limit, 1000 by default).
RecursionLimit == 4

\* Names entries are created under and queried by.
EntryNames == {"Flour", "Dough"}
\* A name that is queried and required but never created.
Unknown == "Salt"
\* The three names of the resolver's specification, in creation order.
NameSeq == <<"Flour", "Dough", "Bread">>

(***************************************************************************)
(* The error texts of the handlers.                                        *)
(***************************************************************************)
ErrTypeMissing == "The type is missing! Please add the type to your request!!!"
ErrTypeInvalid == "Please use the specified type of either 'recipe' or 'ingredient'."
ErrNoRequiredItems == "Please ensure your recipe has a requiredItems field."
ErrCookTime == "Please enter a valid 'cookTime' that is greater or equal to 0!!!"
ErrDuplicateName == "An entry of this name already exists. Please provide unique entry names!!!"
ErrDuplicateItems == "There are duplicate entires in 'requiredItems'. It can only contain unique elements!!!"
ErrIngredientQueried == "An ingredient was passed in. Please ONLY pass in a valid recipe!!!"
ErrNotInCookbook == "Recipe is not in the cookbook!!!"
ErrMissingDependency == "The recipe contains recipes or ingredients that aren't in the cookbook."
\* str(e) of the RecursionError the interpreter raises.
ErrRecursion == "maximum recursion depth exceeded"
\* Flask's answer to an exception no handler catches (here: KeyError).
ErrInternal == "Internal Server Error"

(***************************************************************************)
(* Dictionaries (name -> integer) and responses.                           *)
(***************************************************************************)
EmptyDict == [k \in {} |-> 0]

\* d.get(k, 0)
DictGet(d, k) == IF k \in DOMAIN d THEN d[k] ELSE 0

\* d[k] = d.get(k, 0) + v
DictAdd(d, k, v) == [x \in DOMAIN d \cup {k} |-> IF x = k THEN DictGet(d, k) + v ELSE d[x]]

\* d.update(sub): a quantity of sub replaces the one d holds.
DictMerge_Overwrites(d, sub) ==
    [x \in DOMAIN d \cup DOMAIN sub |-> IF x \in DOMAIN sub THEN sub[x] ELSE d[x]]

\* for k, v in sub.items(): d[k] = d.get(k, 0) + v
DictMerge(d, sub) == [x \in DOMAIN d \cup DOMAIN sub |-> DictGet(d, x) + DictGet(sub, x)]

Response(op, query, status, keys, error, name, cookTime, ingredients) ==
    [op |-> op, query |-> query, status |-> status, keys |-> keys, error |-> error,
     name |-> name, cookTime |-> cookTime, ingredients |-> ingredients]

\* jsonify({"error": text}), status
ErrorResponse(op, query, status, text) ==
    Response(op, query, status, {"error"}, text, "", 0, EmptyDict)

\* An uncaught exception: Flask answers 500 with an HTML page, no JSON body.
CrashResponse(op, query) == Response(op, query, 500, {}, ErrInternal, "", 0, EmptyDict)

\* No request has been served yet.
NoResponse == Response("none", "", 0, {}, "", "", 0, EmptyDict)

(***************************************************************************)
(* The dataclasses.                                                        *)
(***************************************************************************)
RequiredItem(name, quantity) == [name |-> name, quantity |-> quantity]

Recipe(type, name, required_items) ==
    [type |-> type, name |-> name, required_items |-> required_items]

Ingredient(type, name, cook_time) ==
    [type |-> type, name |-> name, cook_time |-> cook_time]

(***************************************************************************)
(* create_entry                                                            *)
(***************************************************************************)
\* validate_required_items: TRUE when two items of the list share a name.
validate_required_items(required_items_list) ==
    \E i, j \in 1..Len(required_items_list) :
        i < j /\ required_items_list[i].name = required_items_list[j].name

\* A duplicate check that looks at the newest entry only.
NameTaken_NewestOnly(cb, name) == Len(cb) > 0 /\ cb[Len(cb)].name = name

\* The loop of lines 85-87: some existing entry has the payload's name.
NameTaken(cb, name) == \E i \in 1..Len(cb) : cb[i].name = name

\* Lines 89-97: the RequiredItem list built from a recipe payload.
BuildRequiredItems(payload) ==
    IF payload.type = "recipe"
    THEN [i \in 1..Len(payload.requiredItems) |->
            RequiredItem(payload.requiredItems[i].name, payload.requiredItems[i].quantity)]
    ELSE <<>>

\* Lines 102-118: the entry appended for an accepted payload.
NewEntry(payload, required_items_list) ==
    IF payload.type = "recipe"
    THEN Recipe(payload.type, payload.name, required_items_list)
    ELSE Ingredient(payload.type, payload.name, payload.cookTime)

\* The whole handler: the cookbook and the response it leaves.
CreateEntryOp(cb, payload) ==
    LET Reject(text) == [cookbook |-> cb, response |-> ErrorResponse("create_entry", "", 400, text)]
        Crash == [cookbook |-> cb, response |-> CrashResponse("create_entry", "")]
    IN  IF "type" \notin DOMAIN payload THEN Reject(ErrTypeMissing)
        ELSE IF payload.type \notin {"recipe", "ingredient"} THEN Reject(ErrTypeInvalid)
        ELSE IF payload.type = "recipe" /\ "requiredItems" \notin DOMAIN payload
             THEN Reject(ErrNoRequiredItems)
        ELSE IF payload.type = "ingredient" /\ "cookTime" \notin DOMAIN payload
             THEN Crash   \* payload['cookTime'] raises KeyError
        ELSE IF payload.type = "ingredient" /\ payload.cookTime < 0 THEN Reject(ErrCookTime)
        ELSE IF Len(cb) > 0 /\ "name" \notin DOMAIN payload
             THEN Crash   \* payload["name"] raises KeyError in the first iteration
        ELSE IF "name" \in DOMAIN payload /\ NameTaken(cb, payload.name)
             THEN Reject(ErrDuplicateName)
        ELSE LET required_items_list == BuildRequiredItems(payload)
             IN  IF validate_required_items(required_items_list) THEN Reject(ErrDuplicateItems)
                 ELSE IF "name" \notin DOMAIN payload
                      THEN Crash   \* payload["name"] raises KeyError before the append
                 ELSE [cookbook |-> Append(cb, NewEntry(payload, required_items_list)),
                       response |-> Response("create_entry", "", 200, {}, "", "", 0, EmptyDict)]

\* A handler that appends the recipe before it validates the required items.
create_entry_AppendsFirst(payload) ==
    LET r == CreateEntryOp(cookbook, payload)
    IN  /\ last' = r.response
        /\ cookbook' = IF r.response.error = ErrDuplicateItems /\ "name" \in DOMAIN payload
                       THEN Append(cookbook, NewEntry(payload, BuildRequiredItems(payload)))
                       ELSE r.cookbook

create_entry(payload) ==
    LET r == CreateEntryOp(cookbook, payload)
    IN  /\ cookbook' = r.cookbook
        /\ last' = r.response

(***************************************************************************)
(* summary                                                                 *)
(***************************************************************************)
\* Lines 178-181: the index of the first entry with that name, 0 for None.
FindEntry(cb, name) ==
    IF \E i \in 1..Len(cb) : cb[i].name = name
    THEN CHOOSE i \in 1..Len(cb) :
            /\ cb[i].name = name
            /\ \A j \in 1..(i - 1) : cb[j].name # name
    ELSE 0

Return(dict) == [ok |-> TRUE, dict |-> dict, error |-> ""]
Raise(text) == [ok |-> FALSE, dict |-> EmptyDict, error |-> text]

\* A resolver that stops at a name it cannot find and returns what it has.
EntryIsNone_ReturnsPartial(base_ingredients) == Return(base_ingredients)

\* Lines 183-184: the required item names no entry of the cookbook.
EntryIsNone(base_ingredients) == Raise(ErrMissingDependency)

RECURSIVE get_base_ingredients(_, _, _, _)
RECURSIVE ExpandItems(_, _, _, _, _, _)

\* The body of the for loop of get_base_ingredients from item i on, with
\* base_ingredients as accumulated so far; depth counts the frames.
ExpandItems(cb, required_items, i, multiplier, depth, base_ingredients) ==
    IF i > Len(required_items) THEN Return(base_ingredients)
    ELSE LET required_item == required_items[i]
             e == FindEntry(cb, required_item.name)
             total_quantity == required_item.quantity * multiplier
         IN  IF e = 0 THEN EntryIsNone(base_ingredients)
             ELSE IF cb[e].type = "ingredient"
                  THEN ExpandItems(cb, required_items, i + 1, multiplier, depth,
                                   DictAdd(base_ingredients, required_item.name, total_quantity))
             ELSE LET sub == get_base_ingredients(cb, cb[e], total_quantity, depth + 1)
                  IN  IF ~sub.ok THEN sub
                      ELSE ExpandItems(cb, required_items, i + 1, multiplier, depth,
                                       DictMerge(base_ingredients, sub.dict))

\* A resolver that answers an empty mapping where the interpreter would raise.
get_base_ingredients_DepthGuard(cb, recipe, multiplier, depth) ==
    IF depth > RecursionLimit THEN Return(EmptyDict)
    ELSE ExpandItems(cb, recipe.required_items, 1, multiplier, depth, EmptyDict)

get_base_ingredients(cb, recipe, multiplier, depth) ==
    IF depth > RecursionLimit THEN Raise(ErrRecursion)
    ELSE ExpandItems(cb, recipe.required_items, 1, multiplier, depth, EmptyDict)

RECURSIVE SumOver(_, _, _)
\* The sum of f[x] over x in S.
SumOver(S, f, acc) ==
    IF S = {} THEN acc
    ELSE LET x == CHOOSE y \in S : TRUE IN SumOver(S \ {x}, f, acc + f[x])

\* An inner loop that adds cook_time once, whatever the quantity.
CookTimeOf_IgnoresQuantity(cb, ingredient_name, quantity) ==
    LET hits == {i \in 1..Len(cb) : cb[i].name = ingredient_name}
    IN  SumOver(hits, [i \in hits |-> cb[i].cook_time], 0)

\* The inner loop of get_total_cook_time for one ingredient_name.
CookTimeOf(cb, ingredient_name, quantity) ==
    LET hits == {i \in 1..Len(cb) : cb[i].name = ingredient_name}
    IN  SumOver(hits, [i \in hits |-> cb[i].cook_time * quantity], 0)

get_total_cook_time(cb, base_ingredients) ==
    SumOver(DOMAIN base_ingredients,
            [n \in DOMAIN base_ingredients |-> CookTimeOf(cb, n, base_ingredients[n])], 0)

\* Lines 144-152: 0 when an ingredient of that name is met, else the index of
\* the last recipe of that name, else -1.
FindRecipe(cb, query_name) ==
    LET named == {i \in 1..Len(cb) : cb[i].name = query_name}
        ingredients == {i \in named : cb[i].type = "ingredient"}
        recipes == {i \in named : cb[i].type = "recipe"}
    IN  IF ingredients # {} THEN 0
        ELSE IF recipes = {} THEN -1
        ELSE CHOOSE i \in recipes : \A j \in recipes : j <= i

\* The whole handler: the response it returns.
SummaryOp(cb, query_name) ==
    LET r == FindRecipe(cb, query_name)
    IN  IF r = 0 THEN ErrorResponse("summary", query_name, 400, ErrIngredientQueried)
        ELSE IF r = -1 THEN ErrorResponse("summary", query_name, 400, ErrNotInCookbook)
        ELSE LET base == get_base_ingredients(cb, cb[r], 1, 1)
             IN  IF ~base.ok THEN ErrorResponse("summary", query_name, 400, base.error)
                 ELSE Response("summary", query_name, 200, {"name", "cookTime", "ingredients"}, "",
                               query_name, get_total_cook_time(cb, base.dict), base.dict)

\* A resolver that writes each total_quantity back: the items of the recipes
\* the queried recipe requires are scaled in place.
SummaryCookbook_WritesBack(cb, query_name) ==
    LET r == FindRecipe(cb, query_name)
        Scale(i) ==
            LET ks == {k \in 1..Len(cb[r].required_items) : cb[r].required_items[k].name = cb[i].name}
            IN  IF cb[i].type # "recipe" \/ ks = {} THEN cb[i]
                ELSE LET q == cb[r].required_items[CHOOSE k \in ks : TRUE].quantity
                     IN  [cb[i] EXCEPT !.required_items =
                            [j \in 1..Len(cb[i].required_items) |->
                                RequiredItem(cb[i].required_items[j].name,
                                             cb[i].required_items[j].quantity * q)]]
    IN  IF r <= 0 THEN cb ELSE [i \in 1..Len(cb) |-> Scale(i)]

\* summary reads the cookbook and assigns nothing in it.
SummaryCookbook(cb, query_name) == cb

summary(query_name) ==
    /\ last' = SummaryOp(cookbook, query_name)
    /\ cookbook' = SummaryCookbook(cookbook, query_name)

(***************************************************************************)
(* Spec: every request the handlers may receive, from the empty cookbook.  *)
(***************************************************************************)
ItemNames == EntryNames \cup {Unknown}
Items == {RequiredItem(n, q) : n \in ItemNames, q \in SpecQuantities}
\* requiredItems lists of at most two items (two are enough for a repeated name).
ItemLists == {<<>>} \cup {<<a>> : a \in Items} \cup {<<a, b>> : a \in Items, b \in Items}

IngredientPayloads ==
    {[type |-> "ingredient", name |-> n, cookTime |-> c] : n \in EntryNames, c \in (-1)..MaxCookTime}
    \cup {[type |-> "ingredient", name |-> n] : n \in EntryNames}
    \cup {[type |-> "ingredient", cookTime |-> c] : c \in (-1)..0}
    \cup {[type |-> "ingredient"]}
RecipePayloads ==
    {[type |-> "recipe", name |-> n, requiredItems |-> l] : n \in EntryNames, l \in ItemLists}
    \cup {[type |-> "recipe", name |-> n] : n \in EntryNames}
    \cup {[type |-> "recipe", requiredItems |-> l] : l \in {<<>>} \cup {<<a, a>> : a \in Items}}
    \cup {[type |-> "recipe"]}
UntypedPayloads ==
    {[name |-> n, cookTime |-> 0] : n \in EntryNames}
    \cup {[type |-> "pan", name |-> n, cookTime |-> -1] : n \in EntryNames}
    \cup {[type |-> "pan", name |-> n] : n \in EntryNames}
Payloads == IngredientPayloads \cup RecipePayloads \cup UntypedPayloads

QueryNames == EntryNames \cup {Unknown}

Init ==
    /\ cookbook = <<>>
    /\ last = NoResponse

Next ==
    \/ \E payload \in Payloads : create_entry(payload)
    \/ \E query_name \in QueryNames : summary(query_name)

Spec == Init /\ [][Next]_vars

(***************************************************************************)
(* SpecResolve: summary on the cookbooks over three names.  Each initial   *)
(* cookbook is what create_entry leaves after up to three accepted         *)
(* payloads, one per name of NameSeq in that order; a recipe payload lists *)
(* none, one or both of the other two names, in either order, each with a  *)
(* quantity in 1..MaxResolveQuantity.                                      *)
(***************************************************************************)
ResolveNames == {NameSeq[i] : i \in 1..Len(NameSeq)}

ResolveItems(n) == {RequiredItem(m, q) : m \in ResolveNames \ {n}, q \in 1..MaxResolveQuantity}

ResolveItemLists(n) ==
    {<<>>} \cup {<<a>> : a \in ResolveItems(n)}
    \cup {l \in {<<a, b>> : a \in ResolveItems(n), b \in ResolveItems(n)} : l[1].name # l[2].name}

ResolvePayloads(n) ==
    {[type |-> "ingredient", name |-> n, cookTime |-> c] : c \in 0..MaxCookTime}
    \cup {[type |-> "recipe", name |-> n, requiredItems |-> l] : l \in ResolveItemLists(n)}

\* No request for that name.
Skip == [skip |-> TRUE]

RECURSIVE Replay(_, _, _)
\* The cookbook after create_entry has served requests[i..], from cb.
Replay(cb, requests, i) ==
    IF i > Len(requests) THEN cb
    ELSE IF requests[i] = Skip THEN Replay(cb, requests, i + 1)
    ELSE Replay(CreateEntryOp(cb, requests[i]).cookbook, requests, i + 1)

InitResolve ==
    /\ \E p1 \in ResolvePayloads(NameSeq[1]) \cup {Skip},
          p2 \in ResolvePayloads(NameSeq[2]) \cup {Skip},
          p3 \in ResolvePayloads(NameSeq[3]) \cup {Skip} :
            cookbook = Replay(<<>>, <<p1, p2, p3>>, 1)
    /\ last = NoResponse

ResolveQueryNames == ResolveNames \cup {Unknown}

NextResolve == \E query_name \in ResolveQueryNames : summary(query_name)

SpecResolve == InitResolve /\ [][NextResolve]_vars

(***************************************************************************)
(* Properties.                                                             *)
(***************************************************************************)
StoreNames(cb) == {cb[i].name : i \in 1..Len(cb)}

\* The states Init and an accepted create_entry leave: every cookbook the
\* program builds occurs in one of them.
Settled == last.op \in {"none", "create_entry"} /\ last.status \in {0, 200}

\* C1: no two entries of the cookbook share a name, and create_entry never
\* admits a payload whose name an entry of the cookbook already has: it
\* answers with an error and leaves the cookbook as it was.
C1_UniqueNames ==
    /\ \A i, j \in 1..Len(cookbook) : i # j => cookbook[i].name # cookbook[j].name
    /\ Settled =>
         \A payload \in Payloads :
            ("name" \in DOMAIN payload /\ payload.name \in StoreNames(cookbook)) =>
                LET r == CreateEntryOp(cookbook, payload)
                IN  r.cookbook = cookbook /\ r.response.status # 200

\* A second request for a used name was rejected with both names in use.
C1_Witness ==
    /\ last.op = "create_entry"
    /\ last.error = ErrDuplicateName
    /\ StoreNames(cookbook) = EntryNames

\* C3: a request that is not answered with 200 leaves the cookbook unchanged.
C3_FailureKeepsCookbook == [][last'.status # 200 => cookbook' = cookbook]_vars

\* A summary has failed on a cookbook that is not empty.
C3_Witness ==
    /\ Len(cookbook) > 0
    /\ last.op = "summary"
    /\ last.status = 400
    /\ last.error = ErrMissingDependency

(***************************************************************************)
(* The requirement graph of a cookbook, for the properties below.          *)
(***************************************************************************)
\* The entry stored under a name (names are unique, C1).
Stored(cb, n) == cb[CHOOSE i \in 1..Len(cb) : cb[i].name = n]
RecipeNames(cb) == {n \in StoreNames(cb) : Stored(cb, n).type = "recipe"}
IngredientNames(cb) == {n \in StoreNames(cb) : Stored(cb, n).type = "ingredient"}
\* The names a stored recipe lists.
RequiredNames(cb, n) ==
    {Stored(cb, n).required_items[k].name : k \in 1..Len(Stored(cb, n).required_items)}

RECURSIVE RecipesFrom(_, _)
\* The recipes of S and every recipe they require, directly or not.
RecipesFrom(cb, S) ==
    LET T == S \cup (UNION {RequiredNames(cb, n) : n \in S} \cap RecipeNames(cb))
    IN  IF T = S THEN S ELSE RecipesFrom(cb, T)

\* The requirement graph of recipe n holds a cycle.
Cyclic(cb, n) ==
    \E a \in RecipesFrom(cb, {n}) :
        a \in RecipesFrom(cb, RequiredNames(cb, a) \cap RecipeNames(cb))

\* Some recipe of the requirement graph of n lists a name with no entry.
MissingReachable(cb, n) ==
    \E a \in RecipesFrom(cb, {n}) : RequiredNames(cb, a) \ StoreNames(cb) # {}

\* Two items of a requiredItems list share a name.
HasRepeatedName(items) == \E i, j \in 1..Len(items) : i # j /\ items[i].name = items[j].name

\* A well-formed recipe payload under a name the cookbook does not hold.
FreshRecipe(cb, payload) ==
    /\ DOMAIN payload = {"type", "name", "requiredItems"}
    /\ payload.type = "recipe"
    /\ payload.name \notin StoreNames(cb)
    /\ ~HasRepeatedName(payload.requiredItems)

\* The last request was summary on a stored recipe.
SummarizedRecipe == last.op = "summary" /\ last.query \in RecipeNames(cookbook)

\* C6: create_entry admits a recipe whether or not the names it requires
\* have entries; summary on a recipe whose requirement graph lists a name
\* with no entry answers an error with no name, cookTime or ingredients, and
\* the error is the missing-dependency one unless the graph also holds a cycle.
C6_MissingDependency ==
    /\ Settled =>
         \A payload \in RecipePayloads :
            FreshRecipe(cookbook, payload) =>
                LET r == CreateEntryOp(cookbook, payload)
                IN  /\ r.response.status = 200
                    /\ Len(r.cookbook) = Len(cookbook) + 1
                    /\ r.cookbook[Len(r.cookbook)].name = payload.name
    /\ (SummarizedRecipe /\ MissingReachable(cookbook, last.query)) =>
         /\ last.status = 400
         /\ last.keys = {"error"}
         /\ last.ingredients = EmptyDict /\ last.cookTime = 0
         /\ ~Cyclic(cookbook, last.query) => last.error = ErrMissingDependency

\* summary failed on a recipe whose own required names all have entries: the
\* missing name is required one level down.
C6_Witness ==
    /\ SummarizedRecipe
    /\ last.error = ErrMissingDependency
    /\ RequiredNames(cookbook, last.query) # {}
    /\ RequiredNames(cookbook, last.query) \subseteq StoreNames(cookbook)

C9_Cycles ==
    /\ Settled =>
         \A payload \in RecipePayloads :
            (FreshRecipe(cookbook, payload) /\ Cyclic(CreateEntryOp(cookbook, payload).cookbook, payload.name)) =>
                CreateEntryOp(cookbook, payload).response.status = 200
    /\ (SummarizedRecipe /\ Cyclic(cookbook, last.query)) =>
         /\ last.status = 400
         /\ "ingredients" \notin last.keys
         /\ last.error \in {ErrRecursion, ErrMissingDependency}
    /\ (SummarizedRecipe /\ ~Cyclic(cookbook, last.query)) => last.error # ErrRecursion

\* summary has ended in the recursion error on two recipes that require each
\* other.
C9_Witness ==
    /\ SummarizedRecipe
    /\ last.error = ErrRecursion
    /\ \E other \in RecipeNames(cookbook) \ {last.query} :
          /\ other \in RequiredNames(cookbook, last.query)
          /\ last.query \in RequiredNames(cookbook, other)

(***************************************************************************)
(* The flattening of a recipe, stated over the paths of the graph.         *)
(***************************************************************************)
\* The quantity with which stored recipe a lists name b.
QuantityOf(cb, a, b) ==
    LET items == Stored(cb, a).required_items
    IN  items[CHOOSE k \in 1..Len(items) : items[k].name = b].quantity

\* The paths from recipe r to entry x: r, recipes, x, each listing the next.
PathsBetween(cb, r, x) ==
    {p \in UNION {[1..n -> StoreNames(cb)] : n \in 2..Len(cb)} :
        /\ p[1] = r
        /\ p[Len(p)] = x
        /\ \A k \in 1..(Len(p) - 1) :
              p[k] \in RecipeNames(cb) /\ p[k + 1] \in RequiredNames(cb, p[k])}

RECURSIVE PathProduct(_, _, _)
\* The product of the quantities along p from its k-th edge on.
PathProduct(cb, p, k) ==
    IF k >= Len(p) THEN 1
    ELSE QuantityOf(cb, p[k], p[k + 1]) * PathProduct(cb, p, k + 1)

RECURSIVE SetSum(_, _)
\* The sum of f over its domain restricted to S.
SetSum(S, f) ==
    IF S = {} THEN 0
    ELSE LET x == CHOOSE y \in S : TRUE IN f[x] + SetSum(S \ {x}, f)

\* ingredient -> the sum over the paths from r of the product of the quantities.
PathTotals(cb, r) ==
    LET reached == {x \in IngredientNames(cb) : PathsBetween(cb, r, x) # {}}
    IN  [x \in reached |->
            LET ps == PathsBetween(cb, r, x)
            IN  SetSum(ps, [p \in ps |-> PathProduct(cb, p, 1)])]

\* C4: summary on a recipe whose requirement graph holds no cycle and lists
\* only names with entries succeeds, and its ingredients mapping has exactly
\* the ingredients a path leads to, each with the sum over those paths of
\* the product of the quantities along the path.
C4_PathSums ==
    (/\ SummarizedRecipe
     /\ ~Cyclic(cookbook, last.query)
     /\ ~MissingReachable(cookbook, last.query)) =>
        /\ last.status = 200
        /\ last.ingredients = PathTotals(cookbook, last.query)

\* summary has merged an ingredient the recipe reaches both directly and
\* through a nested recipe.
C4_Witness ==
    /\ SummarizedRecipe
    /\ last.status = 200
    /\ \E x \in DOMAIN last.ingredients :
          /\ x \in RequiredNames(cookbook, last.query)
          /\ \E p \in PathsBetween(cookbook, last.query, x) : Len(p) = 3
          /\ last.ingredients[x] = 3

\* C5: the cookTime of a successful summary is the sum, over the returned
\* ingredients mapping, of the ingredient's stored cook_time times its
\* quantity (0 for the empty mapping).
C5_CookTime ==
    (last.op = "summary" /\ last.status = 200) =>
        /\ DOMAIN last.ingredients \subseteq IngredientNames(cookbook)
        /\ last.cookTime =
              SetSum(DOMAIN last.ingredients,
                     [x \in DOMAIN last.ingredients |->
                        Stored(cookbook, x).cook_time * last.ingredients[x]])

\* summary has added the cook times of two ingredients, one taken twice.
C5_Witness ==
    /\ last.op = "summary"
    /\ last.status = 200
    /\ Cardinality(DOMAIN last.ingredients) = 2
    /\ \E x \in DOMAIN last.ingredients :
          last.ingredients[x] = 2 /\ Stored(cookbook, x).cook_time = 1
    /\ last.cookTime = 3

(***************************************************************************)
(* Statements the code does not meet.                                      *)
(***************************************************************************)
\* The rejection reason of a response, by the error text it carries.
KindOf(response) ==
    IF response.status = 200 THEN "Ok"
    ELSE IF response.error \in {ErrTypeMissing, ErrTypeInvalid} THEN "InvalidType"
    ELSE IF response.error = ErrNoRequiredItems THEN "MissingField"
    ELSE IF response.error = ErrCookTime THEN "InvalidCookTime"
    ELSE IF response.error = ErrDuplicateName THEN "DuplicateName"
    ELSE IF response.error = ErrDuplicateItems THEN "DuplicateRequiredItem"
    ELSE IF response.error = ErrNotInCookbook THEN "NotFound"
    ELSE IF response.error = ErrIngredientQueried THEN "WrongType"
    ELSE IF response.error = ErrMissingDependency THEN "MissingDependency"
    ELSE "Unclassified"

\* The outcome the five ordered checks prescribe for a payload.
FirstFailedCheck(cb, payload) ==
    IF "type" \notin DOMAIN payload \/ payload.type \notin {"recipe", "ingredient"}
    THEN "InvalidType"
    ELSE IF payload.type = "recipe" /\ "requiredItems" \notin DOMAIN payload
    THEN "MissingField"
    ELSE IF payload.type = "ingredient" /\ "cookTime" \notin DOMAIN payload
    THEN "MissingField"
    ELSE IF payload.type = "ingredient" /\ payload.cookTime < 0
    THEN "InvalidCookTime"
    ELSE IF payload.name \in StoreNames(cb)
    THEN "DuplicateName"
    ELSE IF payload.type = "recipe" /\ HasRepeatedName(payload.requiredItems)
    THEN "DuplicateRequiredItem"
    ELSE "Ok"

\* C2: create_entry answers every payload that carries a name with the
\* outcome of the first of the five checks that fails: InvalidType, then
\* MissingField (requiredItems of a recipe, cookTime of an ingredient), then
\* InvalidCookTime, DuplicateName, DuplicateRequiredItem, and accepts it when
\* none fails.
C2_CheckOrder ==
    Settled =>
        \A payload \in Payloads :
            "name" \in DOMAIN payload =>
                KindOf(CreateEntryOp(cookbook, payload).response) = FirstFailedCheck(cookbook, payload)

\* What a caller reads of a response without reading the error text.
Discriminator(response) == <<response.status, response.keys>>

\* C7: summary answers NotFound for a name with no entry and WrongType for
\* the name of an ingredient, and two responses of different rejection
\* reasons differ in more than the error text.
C7_ErrorKinds ==
    /\ \A n \in QueryNames :
          /\ n \notin StoreNames(cookbook) => KindOf(SummaryOp(cookbook, n)) = "NotFound"
          /\ n \in IngredientNames(cookbook) => KindOf(SummaryOp(cookbook, n)) = "WrongType"
    /\ \A n, m \in QueryNames :
          LET a == SummaryOp(cookbook, n)
              b == SummaryOp(cookbook, m)
          IN  KindOf(a) # KindOf(b) => Discriminator(a) # Discriminator(b)

\* C10: every stored ingredient has cook_time >= 0, no stored recipe lists a
\* name twice, and every required item of a stored recipe has a quantity > 0.
C10_StoredEntriesValid ==
    \A i \in 1..Len(cookbook) :
        IF cookbook[i].type = "ingredient" THEN cookbook[i].cook_time >= 0
        ELSE /\ ~HasRepeatedName(cookbook[i].required_items)
             /\ \A k \in 1..Len(cookbook[i].required_items) :
                   cookbook[i].required_items[k].quantity > 0

====
